---- MODULE Spec2Model ----
(***************************************************************************)
(* Model of the prediction cache of the fake-news detector                 *)
(* (src/src/utils/cache.py, class PredictionCache), of its use by          *)
(* concurrent callers and by the /predict route, of the weighted vote      *)
(* (src/src/ml/ensemble.py), of the combined explanation                   *)
(* (src/src/ml/explainer.py) and of the verdict calculation                *)
(* (src/src/enhancements/enhanced_detector.py).                            *)
(*                                                                         *)
(* The OrderedDict self.cache is a sequence of entries, first element =    *)
(* oldest position (the one popitem(last=False) removes).  time.time() is  *)
(* the integer variable now, advanced by Tick.  hashlib.md5 is taken to be *)
(* injective on the keys of the model, so a key is the hashed content      *)
(* string itself.  Floats are exact rationals [num, den]: probabilities    *)
(* are given in hundredths and classifier weights in tenths.               *)
(***************************************************************************)
EXTENDS Integers, Sequences, FiniteSets, TLC

\* ---------------------------------------------------------------- bounds
MaxMaxSize == 3
MaxTtl == 1
MaxTime == 2
MaxCount == 2
MaxCalls == 2
MaxConcSize == 2
MaxFeatures == 2

\* Inputs of the calls.
Requests == {<<"a", "ensemble">>, <<"b", "ensemble">>, <<"a", "lightgbm">>}
Results == {"r1", "r2"}
Threads == {1, 2}

\* Inputs of the concurrent callers.
ConcRequests == {<<"a", "ensemble">>, <<"b", "ensemble">>}
ConcResults == {"r1"}

\* Python's None, as a return value.
None == "None"

VARIABLES
    max_size,     \* self.max_size
    ttl,          \* self.ttl
    cache,        \* self.cache, in OrderedDict order
    hits,         \* self.hits
    misses,       \* self.misses
    now,          \* the value time.time() returns
    ret,          \* the last completed call and what it returned
    written,      \* history: per key, the latest set not since evicted/cleared
    accessOrder,  \* history: stored keys, least recently inserted/read first
    scen,         \* history: matched prefix of scenario C (k1,k2,k3 inserts)
    pc,           \* per thread: position inside get/set/clear
    local,        \* per thread: the call's local variables
    calls,        \* per thread: calls started so far
    loaded,       \* SmartEnsemble.loaded
    models,       \* SmartEnsemble.models: the loaded names, in dict order
    proba,        \* per model, what predict_proba gives for the text at hand
    eret,         \* the last SmartEnsemble call and what it returned
    explainers,   \* the global EnsembleExplainer: created?, its explainers
    explanations, \* per model, the weights its NewsExplainer finds in the text
    num_features, \* the num_features of the explanation request
    xret,         \* the last /explain request and its answer
    signals,      \* the result dict handed to _calculate_final_verdict
    verdict,      \* what _calculate_final_verdict returned
    image,        \* the result dict of the image checks
    imageVerdict, \* what the image _calculate_final_verdict returned
    clf,          \* per classifier input, each model's predict_proba row
    heap,         \* the dict objects the cache entries refer to
    resp,         \* the last /predict request and its response
    stored,       \* history: per dict object, its value when it was stored
    seen,         \* history: per request, the body of its first 200 response
    origin        \* history: per dict object, the input it was computed from

vars == <<max_size, ttl, cache, hits, misses, now, ret, written, accessOrder,
          scen, pc, local, calls, loaded, models, proba, eret, explainers,
          explanations, num_features, xret, signals, verdict, image,
          imageVerdict, clf, heap, resp, stored, seen, origin>>

cacheVars == <<max_size, ttl, cache, hits, misses, now>>
histVars == <<ret, written, accessOrder, scen>>
threadVars == <<pc, local, calls>>
ensembleVars == <<loaded, models, proba, eret>>
explainVars == <<explainers, explanations, num_features, xret>>
fusionVars == <<signals, verdict, image, imageVerdict>>
predictVars == <<clf, heap, resp, stored, seen, origin>>

\* what the cache calls do not touch
restVars == <<ensembleVars, explainVars, fusionVars, predictVars>>

\* ------------------------------------------------------- OrderedDict
Keys(c) == {c[i].key : i \in 1..Len(c)}

IndexOf(c, key) == CHOOSE i \in 1..Len(c) : c[i].key = key

\* self.cache[key]
Lookup(c, key) == c[IndexOf(c, key)]

\* del self.cache[key]
DelItem(c, key) == SelectSeq(c, LAMBDA e : e.key # key)

\* self.cache.move_to_end(key)
MoveToEndLeave(c, key) == c
MoveToEnd(c, key) == Append(DelItem(c, key), Lookup(c, key))

\* self.cache.popitem(last=False)
PopItemLast(c) == SubSeq(c, 1, Len(c) - 1)
PopItem(c) == Tail(c)

\* self.cache[key] = entry : an existing key keeps its position
SetItemKeepOld(c, key, entry) ==
    IF key \in Keys(c) THEN c ELSE Append(c, entry)
SetItem(c, key, entry) ==
    IF key \in Keys(c)
    THEN [i \in 1..Len(c) |-> IF c[i].key = key THEN entry ELSE c[i]]
    ELSE Append(c, entry)

\* ------------------------------------------------------- PredictionCache
\* _make_key: md5 of f"{text}|{mode}"
MakeKey(text, mode) == text \o "|" \o mode

AllKeys == {MakeKey(r[1], r[2]) : r \in Requests}

\* time.time() - entry['timestamp'] > self.ttl
IsExpiredNever(entry, t) == FALSE
IsExpired(entry, t) == t - entry.timestamp > ttl

\* len(self.cache) >= self.max_size
AtCapacityStrict(c) == Len(c) > max_size
AtCapacity(c) == Len(c) >= max_size

\* get: the new cache, the new counters and the returned value
CacheGetInsertOnMiss(c, h, m, key, t) ==
    IF key \in Keys(c)
    THEN LET entry == Lookup(c, key) IN
         IF IsExpired(entry, t)
         THEN [cache |-> DelItem(c, key), hits |-> h, misses |-> m + 1,
               val |-> None]
         ELSE [cache |-> MoveToEnd(c, key), hits |-> h + 1, misses |-> m,
               val |-> entry.result]
    ELSE [cache |-> Append(c, [key |-> key, result |-> "r1", timestamp |-> t]),
          hits |-> h, misses |-> m + 1, val |-> None]
CacheGetMissUncounted(c, h, m, key, t) ==
    IF key \in Keys(c)
    THEN LET entry == Lookup(c, key) IN
         IF IsExpired(entry, t)
         THEN [cache |-> DelItem(c, key), hits |-> h, misses |-> m,
               val |-> None]
         ELSE [cache |-> MoveToEnd(c, key), hits |-> h + 1, misses |-> m,
               val |-> entry.result]
    ELSE [cache |-> c, hits |-> h, misses |-> m + 1, val |-> None]
CacheGet(c, h, m, key, t) ==
    IF key \in Keys(c)
    THEN LET entry == Lookup(c, key) IN
         IF IsExpired(entry, t)
         THEN [cache |-> DelItem(c, key), hits |-> h, misses |-> m + 1,
               val |-> None]
         ELSE [cache |-> MoveToEnd(c, key), hits |-> h + 1, misses |-> m,
               val |-> entry.result]
    ELSE [cache |-> c, hits |-> h, misses |-> m + 1, val |-> None]

\* set: popitem on an empty OrderedDict raises KeyError before anything is
\* stored
CacheSet(c, key, result, t) ==
    IF AtCapacity(c)
    THEN IF Len(c) = 0
         THEN [cache |-> c, raised |-> TRUE, popped |-> {}]
         ELSE [cache |-> SetItem(PopItem(c), key,
                            [key |-> key, result |-> result, timestamp |-> t]),
               raised |-> FALSE,
               popped |-> Keys(c) \ Keys(PopItem(c))]
    ELSE [cache |-> SetItem(c, key,
                       [key |-> key, result |-> result, timestamp |-> t]),
          raised |-> FALSE, popped |-> {}]

\* round(hits / total_requests, 3), in thousandths (ties to even)
HitRate(h, m) ==
    IF h + m > 0
    THEN LET q == (1000 * h) \div (h + m)
             r == (1000 * h) % (h + m)
         IN  IF 2 * r > h + m \/ (2 * r = h + m /\ q % 2 = 1) THEN q + 1 ELSE q
    ELSE 0

\* get_stats
CacheStats(c, h, m) ==
    [size |-> Len(c), max_size |-> max_size, hits |-> h, misses |-> m,
     hit_rate |-> HitRate(h, m), ttl |-> ttl]

NoStats == [size |-> 0, max_size |-> 0, hits |-> 0, misses |-> 0,
            hit_rate |-> 0, ttl |-> 0]

Ret(op, key, val, raised, stats) ==
    [op |-> op, key |-> key, val |-> val, raised |-> raised, stats |-> stats]

\* ------------------------------------------------------- history variables
\* scenario C: max_size = 2, inserts k1, k2, k3, then get(k2), get(k3)
K1 == MakeKey("a", "ensemble")
K2 == MakeKey("b", "ensemble")
K3 == MakeKey("a", "lightgbm")

ScenStep(op, key) ==
    IF max_size = 2 /\ scen = 0 /\ op = "set" /\ key = K1 THEN 1
    ELSE IF scen = 1 /\ op = "set" /\ key = K2 THEN 2
    ELSE IF scen = 2 /\ op = "set" /\ key = K3 THEN 3
    ELSE IF scen = 3 /\ op = "get" /\ key = K2 THEN 4
    ELSE IF scen = 4 /\ op = "get" /\ key = K3 THEN 5
    ELSE -1

\* keys ordered by their last access (insertion or get hit), oldest first
Without(s, ks) == SelectSeq(s, LAMBDA k : k \notin ks)

\* ------------------------------------------------------- rationals
Rat(n, d) == [num |-> n, den |-> d]

\* a = b, a > b, a >= b for positive denominators
RatEq(a, b) == a.num * b.den = b.num * a.den
RatGt(a, b) == a.num * b.den > b.num * a.den
RatGe(a, b) == a.num * b.den >= b.num * a.den

\* max(a, b): Python returns the first argument unless the second is larger
RatMax(a, b) == IF RatGt(b, a) THEN b ELSE a

\* ------------------------------------------------------- SmartEnsemble
\* self.model_files, in iteration order
ModelNames == {"random_forest", "lightgbm", "xgboost"}
ModelOrder == <<"random_forest", "lightgbm", "xgboost">>

\* self.weights, in tenths
WeightsHalf == [random_forest |-> 5, lightgbm |-> 3, xgboost |-> 2]
Weights == [random_forest |-> 6, lightgbm |-> 2, xgboost |-> 2]

\* [fake_prob, real_prob] pairs a classifier can report, in hundredths
ProbaPairs == {<<90, 10>>, <<60, 40>>, <<55, 45>>, <<50, 50>>, <<10, 90>>}

\* the label of a probability pair: "fake" if p_fake > p_real else "real"
LabelOf(pfake, preal) == IF RatGt(pfake, preal) THEN "fake" ELSE "real"

\* predict_single, given the model's predict_proba row
PredictSingle(p) ==
    [prediction |-> LabelOf(Rat(p[1], 100), Rat(p[2], 100)),
     probability_fake |-> Rat(p[1], 100),
     probability_real |-> Rat(p[2], 100),
     confidence |-> RatMax(Rat(p[1], 100), Rat(p[2], 100))]

\* the loop of predict_ensemble: sum over the models of p[i] * weight, in
\* thousandths
RECURSIVE Accumulate(_, _, _)
Accumulate(ms, out, i) ==
    IF ms = <<>> THEN 0
    ELSE out[Head(ms)][i] * Weights[Head(ms)] + Accumulate(Tail(ms), out, i)

\* total_weight = sum(self.weights[name] for name in self.models), in tenths
RECURSIVE TotalWeight(_)
TotalWeight(ms) ==
    IF ms = <<>> THEN 0 ELSE Weights[Head(ms)] + TotalWeight(Tail(ms))

\* if total_weight > 0 and total_weight != 1.0: prob /= total_weight
NormalizeNever(acc, total) == Rat(acc, 1000)
Normalize(acc, total) ==
    IF total > 0 /\ total # 10
    THEN Rat(acc, 100 * total)
    ELSE Rat(acc, 1000)

\* the two guards at the top of predict_ensemble
NoGuard(ld, ms) == FALSE
EnsembleRaises(ld, ms) == ~ld \/ Len(ms) = 0

Range(sq) == {sq[i] : i \in 1..Len(sq)}

\* predict_ensemble, given each model's predict_proba row for the text
PredictEnsemble(ld, ms, out) ==
    IF EnsembleRaises(ld, ms)
    THEN [op |-> "predict_ensemble", raised |-> TRUE]
    ELSE LET fake == Normalize(Accumulate(ms, out, 1), TotalWeight(ms))
             real == Normalize(Accumulate(ms, out, 2), TotalWeight(ms))
         IN  [op |-> "predict_ensemble", raised |-> FALSE,
              prediction |-> LabelOf(fake, real),
              confidence |-> RatMax(fake, real),
              probability_fake |-> fake,
              probability_real |-> real,
              proba |-> <<fake, real>>,
              individual_predictions |->
                  [m \in Range(ms) |-> PredictSingle(out[m])],
              models_used |-> ms]

\* load_models: files are the model files that exist, broken the one (if any)
\* joblib.load fails on; the models read before the failure stay in
\* self.models
RECURSIVE LoadLoop(_, _, _, _)
LoadLoop(names, ms, files, broken) ==
    IF names = <<>> THEN [models |-> ms, failed |-> FALSE]
    ELSE IF Head(names) \notin files
         THEN LoadLoop(Tail(names), ms, files, broken)
    ELSE IF Head(names) = broken
         THEN [models |-> ms, failed |-> TRUE]
    ELSE LoadLoop(Tail(names),
                  IF Head(names) \in Range(ms) THEN ms
                  ELSE Append(ms, Head(names)),
                  files, broken)

\* ------------------------------------------------------- texts
\* A text is the sequence of its characters.  The texts of the model hold
\* letters and spaces only: no tag, entity, URL or e-mail address for the
\* re.sub calls of basic_clean to remove.
UpperCase == <<"A", "B", "C", "D", "E", "F", "G", "H", "I", "J", "K", "L", "M",
               "N", "O", "P", "Q", "R", "S", "T", "U", "V", "W", "X", "Y", "Z">>
LowerCase == <<"a", "b", "c", "d", "e", "f", "g", "h", "i", "j", "k", "l", "m",
               "n", "o", "p", "q", "r", "s", "t", "u", "v", "w", "x", "y", "z">>

\* text.lower()
Lower(t) ==
    [i \in 1..Len(t) |->
        IF \E j \in 1..26 : UpperCase[j] = t[i]
        THEN LowerCase[CHOOSE j \in 1..26 : UpperCase[j] = t[i]]
        ELSE t[i]]

\* re.sub(r'\s+', ' ', text)
RECURSIVE CollapseSpaces(_)
CollapseSpaces(t) ==
    IF Len(t) < 2 THEN t
    ELSE IF t[1] = " " /\ t[2] = " " THEN CollapseSpaces(Tail(t))
    ELSE <<t[1]>> \o CollapseSpaces(Tail(t))

\* text.strip()
RECURSIVE Strip(_)
Strip(t) ==
    IF t = <<>> THEN t
    ELSE IF t[1] = " " THEN Strip(Tail(t))
    ELSE IF t[Len(t)] = " " THEN Strip(SubSeq(t, 1, Len(t) - 1))
    ELSE t

\* basic_clean with its default flags
BasicClean(t) ==
    IF t = <<>> THEN <<>> ELSE Strip(CollapseSpaces(Lower(t)))

\* len(text.split())
WordCount(t) ==
    Cardinality({i \in 1..Len(t) :
                    t[i] # " " /\ (i = 1 \/ t[i - 1] = " ")})

\* the defaults of validate_text
MinLength == 10
MaxLength == 50000

\* validate_text(text)[0]
ValidateText(t) ==
    /\ t # <<>>
    /\ Len(Strip(t)) >= MinLength
    /\ Len(t) <= MaxLength
    /\ WordCount(t) >= 3

\* the str of a text
RECURSIVE ToStr(_)
ToStr(t) == IF t = <<>> THEN "" ELSE t[1] \o ToStr(Tail(t))

\* request texts: one that cleaning changes, its cleaned form, and one that
\* is too short
RawText == <<"B", "i", "g", " ", " ", "N", "e", "w", "s", " ", "n", "o", "w">>
CleanText == <<"b", "i", "g", " ", "n", "e", "w", "s", " ", "n", "o", "w">>
ShortText == <<"n", "o", " ", "w", "a", "y">>
Texts == {RawText, CleanText, ShortText}

\* str, basic_clean and validate_text of the request texts, worked out once
StrOf == [t \in Texts \cup {BasicClean(u) : u \in Texts} |-> ToStr(t)]
CleanOf == [t \in Texts |-> BasicClean(t)]
ValidOf == [t \in Texts |-> ValidateText(t)]

\* ------------------------------------------------------- EnsembleExplainer
Words == {"x", "y"}

\* word weights LIME can report, in hundredths
WordWeights == {-20, 20}

Abs(n) == IF n < 0 THEN -n ELSE n

\* the weights lists a NewsExplainer can return: distinct words, sorted by
\* absolute weight, largest first
WeightLists ==
    {<<>>}
    \cup {<<<<w, v>>>> : w \in Words, v \in WordWeights}
    \cup {l \in {<<<<w1, v1>>, <<w2, v2>>>> :
                     w1 \in Words, w2 \in Words,
                     v1 \in WordWeights, v2 \in WordWeights} :
             l[1][1] # l[2][1] /\ Abs(l[2][2]) <= Abs(l[1][2])}

\* seq[:n]
SliceTo(sq, n) ==
    IF n >= 0
    THEN SubSeq(sq, 1, IF n < Len(sq) THEN n ELSE Len(sq))
    ELSE SubSeq(sq, 1, IF Len(sq) + n > 0 THEN Len(sq) + n ELSE 0)

\* explainer.explain(text, num_features)['weights'] of one NewsExplainer
ExplainerWeights(name, nf) == SliceTo(explanations[name], nf)

\* all_weights[word] += word_weight * weight; all_weights is a dict, kept
\* here as the sequence of its items in insertion order (thousandths)
AddWeight(all, word, amount) ==
    IF \E i \in 1..Len(all) : all[i][1] = word
    THEN [i \in 1..Len(all) |->
             IF all[i][1] = word THEN <<word, all[i][2] + amount>> ELSE all[i]]
    ELSE Append(all, <<word, amount>>)

RECURSIVE AddList(_, _, _)
AddList(all, lst, weight) ==
    IF lst = <<>> THEN all
    ELSE AddList(AddWeight(all, Head(lst)[1], Head(lst)[2] * weight),
                 Tail(lst), weight)

RECURSIVE Aggregate(_, _, _)
Aggregate(all, names, nf) ==
    IF names = <<>> THEN all
    ELSE Aggregate(AddList(all, ExplainerWeights(Head(names), nf),
                           Weights[Head(names)]),
                   Tail(names), nf)

\* sorted(items, key=lambda x: abs(x[1]), reverse=True): stable, an item
\* goes after the items that are at least as heavy
RECURSIVE InsertAscending(_, _)
InsertAscending(sorted, item) ==
    IF sorted = <<>> THEN <<item>>
    ELSE IF Abs(Head(sorted)[2]) <= Abs(item[2])
         THEN <<Head(sorted)>> \o InsertAscending(Tail(sorted), item)
         ELSE <<item>> \o sorted

RECURSIVE InsertByAbs(_, _)
InsertByAbs(sorted, item) ==
    IF sorted = <<>> THEN <<item>>
    ELSE IF Abs(Head(sorted)[2]) >= Abs(item[2])
         THEN <<Head(sorted)>> \o InsertByAbs(Tail(sorted), item)
         ELSE <<item>> \o sorted

RECURSIVE SortByAbs(_, _)
SortByAbs(sorted, items) ==
    IF items = <<>> THEN sorted
    ELSE SortByAbs(InsertByAbs(sorted, Head(items)), Tail(items))

\* EnsembleExplainer.explain with model_name None, before the ensemble
\* prediction is added
CombinedWeights(names, nf) ==
    SliceTo(SortByAbs(<<>>, Aggregate(<<>>, names, nf)), nf)

\* ExplainRequest: num_features has ge=1, le=50
NumFeaturesAny(nf) == TRUE
NumFeaturesValid(nf) == nf >= 1 /\ nf <= 50

\* ------------------------------------------------------- EnhancedDetector
\* The result dict handed to _calculate_final_verdict.  A part that is {}
\* (or, for OCR, a text_source other than 'image_ocr') has present = FALSE.
\* Confidences are in hundredths.
MlSignals ==
    {[present |-> FALSE, label |-> "real", confidence |-> 0]}
    \cup [present : {TRUE}, label : {"fake", "real"},
          confidence : {0, 50, 75, 100}]

SourceSignals ==
    {[present |-> FALSE, known_fake |-> FALSE, trusted |-> FALSE,
      credibility_score |-> 0]}
    \cup [present : {TRUE}, known_fake : BOOLEAN, trusted : BOOLEAN,
          credibility_score : {3, 4}]

SentimentSignals ==
    {[present |-> FALSE, manipulation_risk |-> "LOW"]}
    \cup [present : {TRUE},
          manipulation_risk : {"LOW", "MEDIUM", "HIGH", "VERY HIGH"}]

OcrSignals ==
    {[present |-> FALSE, confidence |-> 100]}
    \cup [present : {TRUE}, confidence : {50, 70, 100}]

NoSignals ==
    [ml |-> [present |-> FALSE, label |-> "real", confidence |-> 0],
     source |-> [present |-> FALSE, known_fake |-> FALSE, trusted |-> FALSE,
                 credibility_score |-> 0],
     sentiment |-> [present |-> FALSE, manipulation_risk |-> "LOW"],
     ocr |-> [present |-> FALSE, confidence |-> 100]]

\* round(x, 1), in tenths (ties to even), for x >= 0
RoundTenths(x) ==
    LET q == (10 * x.num) \div x.den
        r == (10 * x.num) % x.den
    IN  IF 2 * r > x.den \/ (2 * r = x.den /\ q % 2 = 1) THEN q + 1 ELSE q

\* each step of the calculation maps the running
\* [fake_score (hundredths), max_score, reasons, confidence_factors]
\* 1. ML Model (40% weight)
MlStepRealFree(acc, ml) ==
    IF ~ml.present \/ ml.label # "fake" THEN acc
    ELSE [fake_score |-> acc.fake_score + 40 * ml.confidence,
          max_score |-> acc.max_score + 40,
          reasons |-> Append(acc.reasons, "ML Model"),
          factors |-> Append(acc.factors, <<"ML Model", 40 * ml.confidence>>)]
MlStep(acc, ml) ==
    IF ~ml.present THEN acc
    ELSE IF ml.label = "fake"
    THEN [fake_score |-> acc.fake_score + 40 * ml.confidence,
          max_score |-> acc.max_score + 40,
          reasons |-> Append(acc.reasons, "ML Model"),
          factors |-> Append(acc.factors, <<"ML Model", 40 * ml.confidence>>)]
    ELSE [acc EXCEPT !.max_score = @ + 40]

\* 2. Source Verification (30% weight)
SourceStepUnclamped(acc, src) ==
    IF ~src.present THEN acc
    ELSE IF src.known_fake
    THEN [fake_score |-> acc.fake_score + 3000,
          max_score |-> acc.max_score + 30,
          reasons |-> Append(acc.reasons, "Known fake news source"),
          factors |-> Append(acc.factors, <<"Source: Known Fake", 3000>>)]
    ELSE IF src.trusted
    THEN [fake_score |-> acc.fake_score - 3000,
          max_score |-> acc.max_score + 30,
          reasons |-> Append(acc.reasons, "Trusted source"),
          factors |-> Append(acc.factors, <<"Source: Trusted", -3000>>)]
    ELSE IF src.credibility_score < 4
    THEN [fake_score |-> acc.fake_score + 1500,
          max_score |-> acc.max_score + 30,
          reasons |-> Append(acc.reasons, "Low credibility source"),
          factors |-> Append(acc.factors, <<"Source: Low Credibility", 1500>>)]
    ELSE [acc EXCEPT !.max_score = @ + 30]
SourceStep(acc, src) ==
    IF ~src.present THEN acc
    ELSE IF src.known_fake
    THEN [fake_score |-> acc.fake_score + 3000,
          max_score |-> acc.max_score + 30,
          reasons |-> Append(acc.reasons, "Known fake news source"),
          factors |-> Append(acc.factors, <<"Source: Known Fake", 3000>>)]
    ELSE IF src.trusted
    THEN [fake_score |-> IF acc.fake_score - 3000 > 0
                         THEN acc.fake_score - 3000 ELSE 0,
          max_score |-> acc.max_score + 30,
          reasons |-> Append(acc.reasons, "Trusted source"),
          factors |-> Append(acc.factors, <<"Source: Trusted", -3000>>)]
    ELSE IF src.credibility_score < 4
    THEN [fake_score |-> acc.fake_score + 1500,
          max_score |-> acc.max_score + 30,
          reasons |-> Append(acc.reasons, "Low credibility source"),
          factors |-> Append(acc.factors, <<"Source: Low Credibility", 1500>>)]
    ELSE [acc EXCEPT !.max_score = @ + 30]

\* 3. Sentiment Analysis (20% weight)
SentimentStepSwapped(acc, sent) ==
    IF ~sent.present THEN acc
    ELSE IF sent.manipulation_risk \in {"VERY HIGH", "HIGH"}
    THEN LET c == IF sent.manipulation_risk = "VERY HIGH" THEN 1500 ELSE 2000
         IN  [fake_score |-> acc.fake_score + c,
              max_score |-> acc.max_score + 20,
              reasons |-> Append(acc.reasons,
                                 "High emotional manipulation detected"),
              factors |-> Append(acc.factors, <<"Sentiment Manipulation", c>>)]
    ELSE IF sent.manipulation_risk = "MEDIUM"
    THEN [fake_score |-> acc.fake_score + 1000,
          max_score |-> acc.max_score + 20,
          reasons |-> Append(acc.reasons, "Moderate emotional language"),
          factors |-> Append(acc.factors, <<"Sentiment: Moderate", 1000>>)]
    ELSE [acc EXCEPT !.max_score = @ + 20]
SentimentStep(acc, sent) ==
    IF ~sent.present THEN acc
    ELSE IF sent.manipulation_risk \in {"VERY HIGH", "HIGH"}
    THEN LET c == IF sent.manipulation_risk = "VERY HIGH" THEN 2000 ELSE 1500
         IN  [fake_score |-> acc.fake_score + c,
              max_score |-> acc.max_score + 20,
              reasons |-> Append(acc.reasons,
                                 "High emotional manipulation detected"),
              factors |-> Append(acc.factors, <<"Sentiment Manipulation", c>>)]
    ELSE IF sent.manipulation_risk = "MEDIUM"
    THEN [fake_score |-> acc.fake_score + 1000,
          max_score |-> acc.max_score + 20,
          reasons |-> Append(acc.reasons, "Moderate emotional language"),
          factors |-> Append(acc.factors, <<"Sentiment: Moderate", 1000>>)]
    ELSE [acc EXCEPT !.max_score = @ + 20]

\* 4. OCR Confidence (10% weight)
OcrStep(acc, ocr) ==
    IF ~ocr.present THEN acc
    ELSE IF ocr.confidence < 70
    THEN [fake_score |-> acc.fake_score + (100 - ocr.confidence) * 10,
          max_score |-> acc.max_score + 10,
          reasons |-> Append(acc.reasons, "Low OCR confidence"),
          factors |-> Append(acc.factors,
                             <<"OCR Uncertainty", (100 - ocr.confidence) * 10>>)]
    ELSE [acc EXCEPT !.max_score = @ + 10]

\* final_score: a percentage; without any max_score the ML confidence,
\* which get() defaults to 0.5 for the empty ml_prediction
FinalScore(acc) ==
    IF acc.max_score > 0 THEN Rat(acc.fake_score, acc.max_score)
    ELSE Rat(50, 1)

VerdictOfStrict(final) ==
    IF RatGt(final, Rat(80, 1)) THEN "FAKE"
    ELSE IF RatGt(final, Rat(60, 1)) THEN "LIKELY FAKE"
    ELSE IF RatGt(final, Rat(40, 1)) THEN "SUSPICIOUS"
    ELSE IF RatGt(final, Rat(20, 1)) THEN "LIKELY REAL"
    ELSE "REAL"
VerdictOf(final) ==
    IF RatGe(final, Rat(80, 1)) THEN "FAKE"
    ELSE IF RatGe(final, Rat(60, 1)) THEN "LIKELY FAKE"
    ELSE IF RatGe(final, Rat(40, 1)) THEN "SUSPICIOUS"
    ELSE IF RatGe(final, Rat(20, 1)) THEN "LIKELY REAL"
    ELSE "REAL"

\* _get_recommendation
Recommendation(v) ==
    IF v = "FAKE" THEN "Do not trust or share this content"
    ELSE IF v = "LIKELY FAKE" THEN "Highly questionable"
    ELSE IF v = "SUSPICIOUS" THEN "Exercise caution"
    ELSE IF v = "LIKELY REAL" THEN "Appears credible"
    ELSE "Likely legitimate"

\* _calculate_final_verdict: it has no raise statement
CalculateFinalVerdict(sig) ==
    LET start == [fake_score |-> 0, max_score |-> 0, reasons |-> <<>>,
                  factors |-> <<>>]
        acc == OcrStep(SentimentStep(SourceStep(MlStep(start, sig.ml),
                                                sig.source),
                                     sig.sentiment),
                       sig.ocr)
        final == FinalScore(acc)
    IN  [op |-> "final_verdict", raised |-> FALSE,
         verdict |-> VerdictOf(final),
         final_score |-> final,
         confidence |-> RoundTenths(final),
         is_fake |-> RatGe(final, Rat(50, 1)),
         fake_score |-> RoundTenths(Rat(acc.fake_score, 100)),
         max_score |-> acc.max_score,
         reasons |-> acc.reasons,
         confidence_breakdown |-> acc.factors,
         recommendation |-> Recommendation(VerdictOf(final))]

\* ------------------------------------------------------- VisualFakeNewsDetector
\* The result dict of the image checks.  run = FALSE is a check that was
\* switched off or had nothing to work with (its part of the dict is {});
\* confidences are percentages.
ManipulationChecks ==
    {[run |-> FALSE, likely_manipulated |-> FALSE]}
    \cup [run : {TRUE}, likely_manipulated : BOOLEAN]

AiChecks ==
    {[run |-> FALSE, is_ai_generated |-> FALSE, confidence |-> 50]}
    \cup [run : {TRUE}, is_ai_generated : BOOLEAN, confidence : {50, 100}]

ContextChecks ==
    {[run |-> FALSE, is_fake_context |-> FALSE, confidence |-> 50]}
    \cup [run : {TRUE}, is_fake_context : BOOLEAN, confidence : {50, 100}]

MismatchChecks ==
    {[run |-> FALSE, context_matches |-> TRUE]}
    \cup [run : {TRUE}, context_matches : BOOLEAN]

NoImage ==
    [manipulation |-> [run |-> FALSE, likely_manipulated |-> FALSE],
     ai |-> [run |-> FALSE, is_ai_generated |-> FALSE, confidence |-> 50],
     context |-> [run |-> FALSE, is_fake_context |-> FALSE, confidence |-> 50],
     mismatch |-> [run |-> FALSE, context_matches |-> TRUE]]

Min(a, b) == IF a < b THEN a ELSE b

\* what the four blocks add to fake_score, in hundredths
ManipulationScore(c) == IF c.run /\ c.likely_manipulated THEN 2500 ELSE 0
AiScore(c) ==
    IF c.run /\ c.is_ai_generated THEN Min(3500, c.confidence * 35) ELSE 0
ContextScore(c) ==
    IF c.run /\ c.is_fake_context THEN Min(2000, c.confidence * 20) ELSE 0
MismatchScore(c) == IF c.run /\ ~c.context_matches THEN 1500 ELSE 0

ImageVerdictOf(score) ==
    IF score >= 7000 THEN "FAKE"
    ELSE IF score >= 4000 THEN "SUSPICIOUS"
    ELSE "LIKELY_AUTHENTIC"

\* VisualFakeNewsDetector._calculate_final_verdict: it has no raise
\* statement; fake_score is in hundredths
ImageFinalVerdict(img) ==
    LET score == ManipulationScore(img.manipulation) + AiScore(img.ai)
                 + ContextScore(img.context) + MismatchScore(img.mismatch)
    IN  [op |-> "image_verdict", raised |-> FALSE,
         verdict |-> ImageVerdictOf(score),
         fake_score |-> score,
         confidence |-> score,
         is_fake |-> score >= 5000]

\* ------------------------------------------------------- initial states
NoEntry == [key |-> "", result |-> None, timestamp |-> -1]

NoLocal == [op |-> "none", key |-> "", result |-> None, entry |-> NoEntry,
            tmp |-> 0, raised |-> FALSE]

NoWrite == [result |-> None, at |-> -1]

InitCache ==
    /\ ttl \in 0..MaxTtl
    /\ cache = <<>>
    /\ hits = 0
    /\ misses = 0
    /\ now = 0

InitHist ==
    /\ ret = Ret("init", "", None, FALSE, NoStats)
    /\ written = [k \in AllKeys |-> NoWrite]
    /\ accessOrder = <<>>
    /\ scen = 0

InitThreads ==
    /\ pc = [t \in Threads |-> "idle"]
    /\ local = [t \in Threads |-> NoLocal]
    /\ calls = [t \in Threads |-> 0]

\* SmartEnsemble.__init__: nothing loaded
IdleEnsemble ==
    /\ loaded = FALSE
    /\ models = <<>>
    /\ proba = [m \in ModelNames |-> <<50, 50>>]
    /\ eret = [op |-> "init", raised |-> FALSE]

\* _explainer = None
IdleExplain ==
    /\ explainers = [created |-> FALSE, names |-> <<>>]
    /\ explanations = [m \in ModelNames |-> <<>>]
    /\ num_features = 10
    /\ xret = [op |-> "init", status |-> 0]

\* no result dict has been handed to _calculate_final_verdict
IdleImage ==
    /\ image = NoImage
    /\ imageVerdict = [op |-> "init", raised |-> FALSE]

IdleFusion ==
    /\ signals = NoSignals
    /\ verdict = [op |-> "init", raised |-> FALSE]
    /\ IdleImage

\* a function with no argument: no dict object, no request seen
EmptyMap == [k \in {} |-> 0]

\* no /predict request has been made
IdlePredict ==
    /\ clf = EmptyMap
    /\ heap = EmptyMap
    /\ resp = [op |-> "init", status |-> 0]
    /\ stored = EmptyMap
    /\ seen = EmptyMap
    /\ origin = EmptyMap

\* get_cache(): the cache with the default max_size and ttl, unused
IdleCache ==
    /\ max_size = 1000
    /\ ttl = 3600
    /\ cache = <<>>
    /\ hits = 0
    /\ misses = 0
    /\ now = 0

\* __init__ stores whatever max_size and ttl it is given
Init ==
    /\ max_size \in 0..MaxMaxSize
    /\ InitCache
    /\ InitHist
    /\ InitThreads
    /\ IdleEnsemble
    /\ IdleExplain
    /\ IdleFusion
    /\ IdlePredict

\* ------------------------------------------------------- calls, one at a time
Get(text, mode) ==
    LET key == MakeKey(text, mode)
        g == CacheGet(cache, hits, misses, key, now)
    IN  /\ hits + misses < MaxCount
        /\ cache' = g.cache
        /\ hits' = g.hits
        /\ misses' = g.misses
        /\ ret' = Ret("get", key, g.val, FALSE, NoStats)
        /\ written' = written
        /\ accessOrder' =
              IF g.val # None
              THEN Append(Without(accessOrder, {key}), key)
              ELSE Without(accessOrder, Keys(cache) \ Keys(g.cache))
        /\ scen' = ScenStep("get", key)
        /\ UNCHANGED <<max_size, ttl, now, threadVars, restVars>>

Set(text, result, mode) ==
    LET key == MakeKey(text, mode)
        s == CacheSet(cache, key, result, now)
        evicted == (Keys(cache) \ Keys(s.cache))
        inserted == ~s.raised /\ (key \notin Keys(cache) \/ key \in s.popped)
    IN  /\ cache' = s.cache
        /\ ret' = Ret("set", key, result, s.raised, NoStats)
        /\ written' =
              [k \in AllKeys |->
                  IF ~s.raised /\ k = key
                  THEN [result |-> result, at |-> now]
                  ELSE IF k \in evicted THEN NoWrite ELSE written[k]]
        /\ accessOrder' =
              IF inserted
              THEN Append(Without(accessOrder, s.popped \cup {key}), key)
              ELSE Without(accessOrder, s.popped)
        /\ scen' = IF s.raised THEN -1 ELSE ScenStep("set", key)
        /\ UNCHANGED <<max_size, ttl, hits, misses, now, threadVars, restVars>>

Clear ==
    /\ cache' = <<>>
    /\ hits' = 0
    /\ misses' = 0
    /\ ret' = Ret("clear", "", None, FALSE, NoStats)
    /\ written' = [k \in AllKeys |-> NoWrite]
    /\ accessOrder' = <<>>
    /\ scen' = -1
    /\ UNCHANGED <<max_size, ttl, now, threadVars, restVars>>

GetStats ==
    /\ ret' = Ret("get_stats", "", None, FALSE, CacheStats(cache, hits, misses))
    /\ scen' = -1
    /\ UNCHANGED <<cacheVars, written, accessOrder, threadVars, restVars>>

\* time passes between calls
Tick ==
    /\ now < MaxTime
    /\ now' = now + 1
    /\ scen' = -1
    /\ UNCHANGED <<max_size, ttl, cache, hits, misses, ret, written,
                   accessOrder, threadVars, restVars>>

Next ==
    \/ \E r \in Requests : Get(r[1], r[2])
    \/ \E r \in Requests, result \in Results : Set(r[1], result, r[2])
    \/ Clear
    \/ GetStats
    \/ Tick

Spec == Init /\ [][Next]_vars

\* ------------------------------------------------------- concurrent callers
\* The shared instance (routes.py: cache = get_cache()) has no lock: a thread
\* can be preempted between any two statements of get, set and clear.
\* A statement that raises KeyError ends the call with local.raised set.
Goto(t, label) == pc' = [pc EXCEPT ![t] = label]

Raise(t) ==
    /\ pc' = [pc EXCEPT ![t] = "idle"]
    /\ local' = [local EXCEPT ![t].raised = TRUE]

\* key = self._make_key(text, mode), on entry to get
StartGet(t, text, mode) ==
    /\ pc[t] = "idle"
    /\ calls[t] < MaxCalls
    /\ calls' = [calls EXCEPT ![t] = @ + 1]
    /\ local' = [local EXCEPT ![t] =
                    [NoLocal EXCEPT !.op = "get", !.key = MakeKey(text, mode)]]
    /\ Goto(t, "get_in")
    /\ UNCHANGED <<cacheVars, histVars, restVars>>

\* if key in self.cache
GetTest(t) ==
    /\ pc[t] = "get_in"
    /\ Goto(t, IF local[t].key \in Keys(cache) THEN "get_read" ELSE "get_miss")
    /\ UNCHANGED <<cacheVars, histVars, restVars, local, calls>>

\* entry = self.cache[key]
GetRead(t) ==
    /\ pc[t] = "get_read"
    /\ IF local[t].key \in Keys(cache)
       THEN /\ local' = [local EXCEPT ![t].entry = Lookup(cache, local[t].key)]
            /\ Goto(t, "get_exp")
       ELSE Raise(t)
    /\ UNCHANGED <<cacheVars, histVars, restVars, calls>>

\* if time.time() - entry['timestamp'] > self.ttl
GetExpiry(t) ==
    /\ pc[t] = "get_exp"
    /\ Goto(t, IF IsExpired(local[t].entry, now) THEN "get_del" ELSE "get_move")
    /\ UNCHANGED <<cacheVars, histVars, restVars, local, calls>>

\* del self.cache[key]
GetDel(t) ==
    /\ pc[t] = "get_del"
    /\ IF local[t].key \in Keys(cache)
       THEN /\ cache' = DelItem(cache, local[t].key)
            /\ Goto(t, "get_miss")
            /\ UNCHANGED local
       ELSE Raise(t) /\ UNCHANGED cache
    /\ UNCHANGED <<max_size, ttl, hits, misses, now, histVars, restVars, calls>>

\* self.misses += 1 : the read
GetMissLoad(t) ==
    /\ pc[t] = "get_miss"
    /\ local' = [local EXCEPT ![t].tmp = misses]
    /\ Goto(t, "get_miss_store")
    /\ UNCHANGED <<cacheVars, histVars, restVars, calls>>

\* self.misses += 1 : the write; return None
GetMissStore(t) ==
    /\ pc[t] = "get_miss_store"
    /\ misses' = local[t].tmp + 1
    /\ local' = [local EXCEPT ![t].result = None]
    /\ Goto(t, "idle")
    /\ UNCHANGED <<max_size, ttl, cache, hits, now, histVars, restVars, calls>>

\* self.cache.move_to_end(key)
GetMove(t) ==
    /\ pc[t] = "get_move"
    /\ IF local[t].key \in Keys(cache)
       THEN /\ cache' = MoveToEnd(cache, local[t].key)
            /\ Goto(t, "get_hit")
            /\ UNCHANGED local
       ELSE Raise(t) /\ UNCHANGED cache
    /\ UNCHANGED <<max_size, ttl, hits, misses, now, histVars, restVars, calls>>

\* self.hits += 1 : the read
GetHitLoad(t) ==
    /\ pc[t] = "get_hit"
    /\ local' = [local EXCEPT ![t].tmp = hits]
    /\ Goto(t, "get_hit_store")
    /\ UNCHANGED <<cacheVars, histVars, restVars, calls>>

\* self.hits += 1 : the write; return entry['result']
GetHitStore(t) ==
    /\ pc[t] = "get_hit_store"
    /\ hits' = local[t].tmp + 1
    /\ local' = [local EXCEPT ![t].result = local[t].entry.result]
    /\ Goto(t, "idle")
    /\ UNCHANGED <<max_size, ttl, cache, misses, now, histVars, restVars, calls>>

\* key = self._make_key(text, mode), on entry to set
StartSet(t, text, result, mode) ==
    /\ pc[t] = "idle"
    /\ calls[t] < MaxCalls
    /\ calls' = [calls EXCEPT ![t] = @ + 1]
    /\ local' = [local EXCEPT ![t] =
                    [NoLocal EXCEPT !.op = "set", !.key = MakeKey(text, mode),
                                    !.result = result]]
    /\ Goto(t, "set_len")
    /\ UNCHANGED <<cacheVars, histVars, restVars>>

\* if len(self.cache) >= self.max_size
SetLen(t) ==
    /\ pc[t] = "set_len"
    /\ Goto(t, IF AtCapacity(cache) THEN "set_pop" ELSE "set_insert")
    /\ UNCHANGED <<cacheVars, histVars, restVars, local, calls>>

\* self.cache.popitem(last=False)
SetPop(t) ==
    /\ pc[t] = "set_pop"
    /\ IF Len(cache) > 0
       THEN /\ cache' = PopItem(cache)
            /\ Goto(t, "set_insert")
            /\ UNCHANGED local
       ELSE Raise(t) /\ UNCHANGED cache
    /\ UNCHANGED <<max_size, ttl, hits, misses, now, histVars, restVars, calls>>

\* self.cache[key] = {'result': result, 'timestamp': time.time()}
SetInsert(t) ==
    /\ pc[t] = "set_insert"
    /\ cache' = SetItem(cache, local[t].key,
                        [key |-> local[t].key, result |-> local[t].result,
                         timestamp |-> now])
    /\ Goto(t, "idle")
    /\ UNCHANGED <<max_size, ttl, hits, misses, now, histVars, restVars, local, calls>>

\* entry to clear
StartClear(t) ==
    /\ pc[t] = "idle"
    /\ calls[t] < MaxCalls
    /\ calls' = [calls EXCEPT ![t] = @ + 1]
    /\ local' = [local EXCEPT ![t] = [NoLocal EXCEPT !.op = "clear"]]
    /\ Goto(t, "clear_map")
    /\ UNCHANGED <<cacheVars, histVars, restVars>>

\* self.cache.clear()
ClearMap(t) ==
    /\ pc[t] = "clear_map"
    /\ cache' = <<>>
    /\ Goto(t, "clear_hits")
    /\ UNCHANGED <<max_size, ttl, hits, misses, now, histVars, restVars, local, calls>>

\* self.hits = 0
ClearHits(t) ==
    /\ pc[t] = "clear_hits"
    /\ hits' = 0
    /\ Goto(t, "clear_misses")
    /\ UNCHANGED <<max_size, ttl, cache, misses, now, histVars, restVars, local, calls>>

\* self.misses = 0
ClearMisses(t) ==
    /\ pc[t] = "clear_misses"
    /\ misses' = 0
    /\ Goto(t, "idle")
    /\ UNCHANGED <<max_size, ttl, cache, hits, now, histVars, restVars, local, calls>>

\* a cache that single-threaded use cannot make raise (max_size >= 1)
InitConc ==
    /\ max_size \in 1..MaxConcSize
    /\ InitCache
    /\ InitHist
    /\ InitThreads
    /\ IdleEnsemble
    /\ IdleExplain
    /\ IdleFusion
    /\ IdlePredict

NextConc ==
    \/ \E t \in Threads, r \in ConcRequests : StartGet(t, r[1], r[2])
    \/ \E t \in Threads : GetTest(t)
    \/ \E t \in Threads : GetRead(t)
    \/ \E t \in Threads : GetExpiry(t)
    \/ \E t \in Threads : GetDel(t)
    \/ \E t \in Threads : GetMissLoad(t)
    \/ \E t \in Threads : GetMissStore(t)
    \/ \E t \in Threads : GetMove(t)
    \/ \E t \in Threads : GetHitLoad(t)
    \/ \E t \in Threads : GetHitStore(t)
    \/ \E t \in Threads, r \in ConcRequests, result \in ConcResults :
          StartSet(t, r[1], result, r[2])
    \/ \E t \in Threads : SetLen(t)
    \/ \E t \in Threads : SetPop(t)
    \/ \E t \in Threads : SetInsert(t)
    \/ \E t \in Threads : StartClear(t)
    \/ \E t \in Threads : ClearMap(t)
    \/ \E t \in Threads : ClearHits(t)
    \/ \E t \in Threads : ClearMisses(t)
    \/ Tick

SpecConc == InitConc /\ [][NextConc]_vars

\* ------------------------------------------------------- the ensemble alone
\* The classifiers' answers for the text at hand are drawn at the start;
\* load_models finds any subset of the model files, and joblib.load may
\* fail on one of them.
InitEnsemble ==
    /\ IdleCache
    /\ InitHist
    /\ InitThreads
    /\ loaded = FALSE
    /\ models = <<>>
    /\ proba \in [ModelNames -> ProbaPairs]
    /\ eret = [op |-> "init", raised |-> FALSE]
    /\ IdleExplain
    /\ IdleFusion
    /\ IdlePredict

LoadModels(files, broken) ==
    LET r == LoadLoop(ModelOrder, models, files, broken)
        ok == ~r.failed /\ Len(r.models) # 0
    IN  /\ models' = r.models
        /\ loaded' = IF ok THEN TRUE ELSE loaded
        /\ eret' = [op |-> "load_models", raised |-> FALSE, value |-> ok]
        /\ UNCHANGED <<proba, cacheVars, histVars, threadVars, explainVars,
                       fusionVars, predictVars>>

PredictEnsembleCall ==
    /\ eret' = PredictEnsemble(loaded, models, proba)
    /\ UNCHANGED <<loaded, models, proba, cacheVars, histVars, threadVars,
                   explainVars, fusionVars, predictVars>>

NextEnsemble ==
    \/ \E files \in SUBSET ModelNames, broken \in ModelNames \cup {None} :
          LoadModels(files, broken)
    \/ PredictEnsembleCall

SpecEnsemble == InitEnsemble /\ [][NextEnsemble]_vars

\* ------------------------------------------------------- the /explain route
\* what get_ensemble() leaves behind: the models load_models read, loaded
\* only if it went through
AfterLoad(files, broken) ==
    LET r == LoadLoop(ModelOrder, <<>>, files, broken)
    IN  [models |-> r.models, loaded |-> ~r.failed /\ Len(r.models) # 0]

\* EnsembleExplainer.__init__: one NewsExplainer per loaded model
NewExplainers(ms) == [created |-> TRUE, names |-> ms]

\* NewsExplainer.explain: the class is np.argmax of the predict_proba row
ArgmaxLabel(p) == IF p[2] > p[1] THEN "real" ELSE "fake"

\* Startup has loaded the models and, if that went through, created the
\* explainer.  Each NewsExplainer finds some weights in the text.
InitExplain ==
    /\ IdleCache
    /\ InitHist
    /\ InitThreads
    /\ \E files \in SUBSET ModelNames, broken \in ModelNames \cup {None} :
          /\ models = AfterLoad(files, broken).models
          /\ loaded = AfterLoad(files, broken).loaded
    /\ proba = [random_forest |-> <<90, 10>>, lightgbm |-> <<60, 40>>,
                xgboost |-> <<10, 90>>]
    /\ eret = [op |-> "init", raised |-> FALSE]
    /\ explainers = IF loaded THEN NewExplainers(models)
                    ELSE [created |-> FALSE, names |-> <<>>]
    /\ explanations \in
          {e \in [ModelNames -> WeightLists] :
              \A m \in ModelNames \ Range(models) : e[m] = <<>>}
    /\ num_features = 10
    /\ xret = [op |-> "init", status |-> 0]
    /\ IdleFusion
    /\ IdlePredict

\* an /explain answer that is an error
ExplainError(code, name) ==
    [op |-> "explain", status |-> code, model_name |-> name]

\* POST /explain: the request model is validated before the handler runs
Explain(text, nf, name) ==
    LET exps == IF explainers.created THEN explainers
                ELSE NewExplainers(models)
        pred == PredictEnsemble(loaded, models, proba)
    IN  /\ num_features' = nf
        /\ IF ~NumFeaturesValid(nf)
           THEN /\ xret' = ExplainError(422, name)
                /\ UNCHANGED explainers
           ELSE IF ~ValidOf[text]
           THEN /\ xret' = ExplainError(400, name)
                /\ UNCHANGED explainers
           ELSE /\ explainers' = exps
                /\ xret' =
                      IF name # None
                      THEN IF name \notin Range(exps.names)
                           THEN ExplainError(500, name)
                           ELSE [op |-> "explain", status |-> 200,
                                 model_name |-> name,
                                 prediction |-> ArgmaxLabel(proba[name]),
                                 weights |-> ExplainerWeights(name, nf)]
                      ELSE IF pred.raised
                           THEN ExplainError(500, name)
                           ELSE [op |-> "explain", status |-> 200,
                                 model_name |-> name,
                                 prediction |-> pred.prediction,
                                 weights |-> CombinedWeights(exps.names, nf)]
        /\ UNCHANGED <<explanations, ensembleVars, cacheVars, histVars,
                       threadVars, fusionVars, predictVars>>

NextExplain ==
    \E text \in {RawText, ShortText},
       nf \in (0..MaxFeatures) \cup {50, 51},
       name \in {None, "lightgbm", "catboost"} :
        Explain(text, nf, name)

SpecExplain == InitExplain /\ [][NextExplain]_vars

\* ------------------------------------------------------- the verdict alone
\* detect() has gathered some result dict; _calculate_final_verdict is
\* applied to it.
InitFusion ==
    /\ IdleCache
    /\ InitHist
    /\ InitThreads
    /\ IdleEnsemble
    /\ IdleExplain
    /\ signals \in [ml : MlSignals, source : SourceSignals,
                    sentiment : SentimentSignals, ocr : OcrSignals]
    /\ verdict = [op |-> "init", raised |-> FALSE]
    /\ IdleImage
    /\ IdlePredict

FinalVerdict ==
    /\ verdict' = CalculateFinalVerdict(signals)
    /\ UNCHANGED <<signals, image, imageVerdict, cacheVars, histVars, threadVars, ensembleVars,
                   explainVars, predictVars>>

NextFusion == FinalVerdict

SpecFusion == InitFusion /\ [][NextFusion]_vars

\* ------------------------------------------------------- the /predict route
PredictModes == {"ensemble", "lightgbm"}

\* the texts that pass validate_text, as the classifiers get them
ClassifierInputs == {StrOf[RawText], StrOf[CleanText]}

\* predict_proba rows of the three models for one input
ProbaRows ==
    {[random_forest |-> <<90, 10>>, lightgbm |-> <<60, 40>>,
      xgboost |-> <<55, 45>>],
     [random_forest |-> <<10, 90>>, lightgbm |-> <<60, 40>>,
      xgboost |-> <<55, 45>>]}

\* RuleBasedDetector.analyze: no indicator pattern occurs in the texts of the
\* model, so total_score is 0
Analyze(t) ==
    [prediction |-> "uncertain", confidence |-> 50, fake_score |-> 0,
     real_score |-> 0, fake_indicators_found |-> 0,
     real_indicators_found |-> 0]

\* PredictResponse(...).model_dump()
ResponseBody(result, rules) ==
    [prediction |-> result.prediction,
     confidence |-> result.confidence,
     probability_fake |-> result.probability_fake,
     probability_real |-> result.probability_real,
     proba |-> result.proba,
     individual_predictions |-> result.individual_predictions,
     models_used |-> result.models_used,
     rule_based_analysis |-> rules,
     cached |-> FALSE]

\* The module-level cache is created with some max_size and ttl; the models
\* are loaded or not; the classifiers answer each input in a fixed way.
InitPredict ==
    /\ max_size \in 0..MaxMaxSize
    /\ InitCache
    /\ InitHist
    /\ InitThreads
    /\ \E files \in {{}, {"random_forest", "xgboost"}, ModelNames} :
          /\ models = AfterLoad(files, None).models
          /\ loaded = AfterLoad(files, None).loaded
    /\ proba = [m \in ModelNames |-> <<50, 50>>]
    /\ eret = [op |-> "init", raised |-> FALSE]
    /\ IdleExplain
    /\ IdleFusion
    /\ clf \in [ClassifierInputs -> ProbaRows]
    /\ heap = EmptyMap
    /\ resp = [op |-> "init", status |-> 0]
    /\ stored = EmptyMap
    /\ seen = EmptyMap
    /\ origin = EmptyMap

\* a /predict answer that is an error
PredictError(text, clean, mode, code) ==
    [op |-> "predict", text |-> text, clean |-> clean, mode |-> mode,
     status |-> code]

PredictOk(text, clean, mode, body) ==
    [op |-> "predict", text |-> text, clean |-> clean, mode |-> mode,
     status |-> 200, body |-> body]

\* the first 200 body of each (text, mode)
Remember(key, body) ==
    [k \in DOMAIN seen \cup {key} |->
        IF k \in DOMAIN seen THEN seen[k] ELSE body]

\* POST /predict.  A cache entry holds a reference to a dict object; the
\* objects are named by the key of their entry, and an object no entry
\* refers to any more is dropped.
Predict(text, clean, mode) ==
    LET key == MakeKey(StrOf[text], mode)
        g == CacheGet(cache, hits, misses, key, now)
        input == IF clean THEN CleanOf[text] ELSE text
        result == PredictEnsemble(loaded, models, clf[StrOf[input]])
        body == ResponseBody(result, Analyze(input))
        s == CacheSet(g.cache, key, key, now)
        marked == [heap EXCEPT ![key].cached = TRUE]
    IN  /\ hits + misses < MaxCount
        /\ IF ~ValidOf[text]
           THEN /\ resp' = PredictError(text, clean, mode, 400)
                /\ UNCHANGED <<cache, hits, misses, heap, stored, seen,
                               origin>>
           ELSE /\ hits' = g.hits
                /\ misses' = g.misses
                /\ IF g.val # None
                   THEN /\ cache' = g.cache
                        /\ heap' = marked
                        /\ resp' = PredictOk(text, clean, mode, marked[key])
                        /\ seen' = Remember(key, marked[key])
                        /\ UNCHANGED <<stored, origin>>
                   ELSE IF result.raised \/ s.raised
                   THEN /\ cache' = g.cache
                        /\ heap' = [k \in DOMAIN heap \cap Keys(g.cache) |->
                                      heap[k]]
                        /\ stored' = [k \in DOMAIN heap \cap Keys(g.cache) |->
                                        stored[k]]
                        /\ origin' = [k \in DOMAIN heap \cap Keys(g.cache) |->
                                        origin[k]]
                        /\ resp' = PredictError(text, clean, mode, 500)
                        /\ UNCHANGED seen
                   ELSE /\ cache' = s.cache
                        /\ heap' = [k \in Keys(s.cache) |->
                                      IF k = key THEN body ELSE heap[k]]
                        /\ stored' = [k \in Keys(s.cache) |->
                                        IF k = key THEN body ELSE stored[k]]
                        /\ origin' = [k \in Keys(s.cache) |->
                                        IF k = key THEN StrOf[input]
                                        ELSE origin[k]]
                        /\ resp' = PredictOk(text, clean, mode, body)
                        /\ seen' = Remember(key, body)
        /\ UNCHANGED <<max_size, ttl, now, clf, histVars, threadVars,
                       ensembleVars, explainVars, fusionVars>>

NextPredict ==
    \/ \E text \in Texts, clean \in BOOLEAN, mode \in PredictModes :
          Predict(text, clean, mode)
    \/ Tick

SpecPredict == InitPredict /\ [][NextPredict]_vars

\* ------------------------------------------------------- the image verdict
\* detect() has run some of the image checks; _calculate_final_verdict is
\* applied to their results.
InitVisual ==
    /\ IdleCache
    /\ InitHist
    /\ InitThreads
    /\ IdleEnsemble
    /\ IdleExplain
    /\ signals = NoSignals
    /\ verdict = [op |-> "init", raised |-> FALSE]
    /\ image \in [manipulation : ManipulationChecks, ai : AiChecks,
                  context : ContextChecks, mismatch : MismatchChecks]
    /\ imageVerdict = [op |-> "init", raised |-> FALSE]
    /\ IdlePredict

ImageVerdict ==
    /\ imageVerdict' = ImageFinalVerdict(image)
    /\ UNCHANGED <<signals, verdict, image, cacheVars, histVars, threadVars,
                   ensembleVars, explainVars, predictVars>>

NextVisual == ImageVerdict

SpecVisual == InitVisual /\ [][NextVisual]_vars

\* ------------------------------------------------------- properties
\* the step just taken is a completed call of op (Tick leaves ret alone)
Called(op) == now' = now /\ ret'.op = op

\* C1: after set(k, v), a get(k) issued before ttl seconds have elapsed, with
\* no eviction of k and no clear in between, returns exactly v, the value of
\* the most recent set(k, .) (last put wins).
C1_RoundTrip ==
    [][\A k \in AllKeys :
          (Called("get") /\ ret'.key = k /\ written[k].at # -1
              /\ now - written[k].at < ttl)
          => ret'.val = written[k].result]_vars

C1_Witness ==
    /\ ret.op = "get"
    /\ ret.val = "r2"
    /\ written[ret.key] = [result |-> "r2", at |-> now]
    /\ now - written[ret.key].at < ttl
    /\ Len(cache) >= 2
    /\ hits = 2

\* C2: get(k) never returns a value whose most recent set(k, .) is more than
\* ttl old, however many hits happened in between; such a get removes the
\* entry, counts one miss and returns None.
C2_Expiry ==
    [][\A k \in AllKeys :
          (Called("get") /\ ret'.key = k)
          => /\ ret'.val # None
                  => (written[k].at # -1 /\ now - written[k].at <= ttl)
             /\ (k \in Keys(cache) /\ now - written[k].at > ttl)
                  => /\ ret'.val = None
                     /\ k \notin Keys(cache')
                     /\ misses' = misses + 1
                     /\ hits' = hits]_vars

C2_Witness ==
    /\ ret.op = "get"
    /\ ret.val = None
    /\ written[ret.key].at # -1
    /\ now - written[ret.key].at > ttl
    /\ ret.key \notin Keys(cache)
    /\ hits >= 1
    /\ misses = 1

\* C3: with max_size >= 1 the number of stored entries never exceeds
\* max_size, and get_stats().size is that number.
C3_SizeBound ==
    max_size >= 1 =>
        /\ Len(cache) <= max_size
        /\ Cardinality(Keys(cache)) = Len(cache)
        /\ ret.op = "get_stats" => ret.stats.size = Len(cache)

C3_Witness ==
    /\ max_size >= 2
    /\ Len(cache) = max_size
    /\ ret.op = "get_stats"
    /\ ret.stats.size = max_size
    /\ ret.stats.misses >= 1

\* C4: a set of a key not stored, into a cache holding max_size keys, removes
\* exactly one entry: the key whose last access (insertion or latest get hit)
\* is the oldest; a get hit makes its key the most recently used; with
\* max_size = 2 and inserts k1, k2, k3, k1 is gone and get(k2), get(k3) hit.
C4_EvictsOldest ==
    [][(Called("set") /\ ~ret'.raised /\ ret'.key \notin Keys(cache)
           /\ max_size >= 1 /\ Len(cache) = max_size)
       => /\ Keys(cache) \ Keys(cache') = {Head(accessOrder)}
          /\ Keys(cache') = (Keys(cache) \ {Head(accessOrder)}) \cup {ret'.key}
      ]_vars

C4_HitPromotes ==
    [][(Called("get") /\ ret'.val # None)
       => cache'[Len(cache')].key = ret'.key]_vars

C4_ScenarioC ==
    /\ scen >= 3 => (K1 \notin Keys(cache) /\ Keys(cache) = {K2, K3})
    /\ scen >= 4 => (ret.op = "get" /\ ret.val # None)

C4_LruOrder == C4_EvictsOldest /\ C4_HitPromotes /\ []C4_ScenarioC

C4_Witness ==
    /\ scen = 5
    /\ ret.key = K3
    /\ ret.val # None
    /\ K1 \notin Keys(cache)
    /\ hits = 2

\* C5: after set(k, v2) on a key already stored, k is the most recently used
\* entry (the last one the next eviction would remove).
C5_WriteIsUse ==
    [][(Called("set") /\ ~ret'.raised /\ ret'.key \in Keys(cache))
       => cache'[Len(cache')].key = ret'.key]_vars

\* C6: a set whose key is already stored, or into a cache with fewer than
\* max_size entries, removes no other key; any set removes at most one.
C6_EvictsOnlyOnOverflow ==
    [][(Called("set") /\ ~ret'.raised)
       => /\ (ret'.key \in Keys(cache) \/ Len(cache) < max_size)
               => Keys(cache) \ {ret'.key} \subseteq Keys(cache')
          /\ Cardinality(Keys(cache) \ Keys(cache')) <= 1]_vars

\* C7: hits and misses never decrease except at clear, which resets both to
\* 0; every get adds exactly 1 to exactly one of them (hits when a value is
\* returned, misses when None is); set and get_stats change neither.
C7_Counters ==
    [][/\ (hits' < hits \/ misses' < misses) => Called("clear")
       /\ Called("clear") => (hits' = 0 /\ misses' = 0)
       /\ Called("get") =>
             \/ (ret'.val # None /\ hits' = hits + 1 /\ misses' = misses)
             \/ (ret'.val = None /\ hits' = hits /\ misses' = misses + 1)
       /\ (Called("set") \/ Called("get_stats")) =>
             (hits' = hits /\ misses' = misses)]_vars

C7_Witness ==
    /\ ret.op = "get"
    /\ ret.val = None
    /\ written[ret.key].at # -1
    /\ hits = 1
    /\ misses = 1

\* C8: no operation other than set(k, .) makes an absent key k present, and
\* a get of an absent key returns None.
C8_Lifecycle ==
    [][\A k \in AllKeys :
          /\ (k \notin Keys(cache) /\ k \in Keys(cache'))
                => (Called("set") /\ ret'.key = k /\ ~ret'.raised)
          /\ (Called("get") /\ ret'.key = k /\ k \notin Keys(cache))
                => (ret'.val = None /\ k \notin Keys(cache'))]_vars

C8_Witness ==
    /\ ret.op = "get"
    /\ ret.val = None
    /\ ret.key \notin Keys(cache)
    /\ written[ret.key].at # -1
    /\ now - written[ret.key].at > ttl
    /\ misses >= 2
    /\ Len(cache) >= 1

\* C9: no call of get, set, clear or get_stats raises, whatever max_size and
\* ttl the cache was constructed with.
C9_NeverRaises == ~ret.raised

\* C10: concurrent get, set and clear behave like a one-at-a-time ordering:
\* no interleaving of their steps leaves more than max_size entries or makes
\* a call raise.
C10_Serialized ==
    /\ Len(cache) <= max_size
    /\ \A t \in Threads : ~local[t].raised

\* the ensemble answered the last call with a result
Voted == eret.op = "predict_ensemble" /\ ~eret.raised

\* sum over the loaded models of weight * x, with the weights 0.6/0.2/0.2
\* written out in tenths
WeightedSum(x) ==
    (IF "random_forest" \in Range(models) THEN 6 * x["random_forest"] ELSE 0)
    + (IF "lightgbm" \in Range(models) THEN 2 * x["lightgbm"] ELSE 0)
    + (IF "xgboost" \in Range(models) THEN 2 * x["xgboost"] ELSE 0)

ScenarioB ==
    proba = [random_forest |-> <<90, 10>>, lightgbm |-> <<60, 40>>,
             xgboost |-> <<55, 45>>]

\* C13: for every non-empty set S of loaded models predict_ensemble returns
\* probability_fake = (sum over S of weight_i * p_fake_i) / (sum over S of
\* weight_i), and likewise probability_real, with weights 0.6/0.2/0.2; RF
\* (0.9,0.1), LGB (0.6,0.4), XGB (0.55,0.45) give 0.77 fake, and 0.8125 fake
\* when LGB is missing.
C13_Renormalized ==
    Voted =>
        LET ones == [m \in ModelNames |-> 1]
            pf == [m \in ModelNames |-> proba[m][1]]
            pr == [m \in ModelNames |-> proba[m][2]]
        IN  /\ RatEq(eret.probability_fake,
                     Rat(WeightedSum(pf), 100 * WeightedSum(ones)))
            /\ RatEq(eret.probability_real,
                     Rat(WeightedSum(pr), 100 * WeightedSum(ones)))
            /\ ScenarioB /\ Range(models) = ModelNames
                  => RatEq(eret.probability_fake, Rat(77, 100))
            /\ ScenarioB /\ Range(models) = {"random_forest", "xgboost"}
                  => RatEq(eret.probability_fake, Rat(8125, 10000))

C13_Witness ==
    /\ Voted
    /\ ScenarioB
    /\ models = <<"random_forest", "xgboost">>
    /\ RatEq(eret.probability_fake, Rat(8125, 10000))

\* C14: when every loaded classifier's p_fake + p_real is 1, the ensemble's
\* probability_fake + probability_real is 1 and its confidence, the larger of
\* the two, lies in [0.5, 1.0].
C14_SumsToOne ==
    Voted /\ (\A m \in Range(models) : proba[m][1] + proba[m][2] = 100) =>
        LET f == eret.probability_fake
            r == eret.probability_real
        IN  /\ f.num * r.den + r.num * f.den = f.den * r.den
            /\ eret.confidence = RatMax(f, r)
            /\ RatGe(eret.confidence, Rat(1, 2))
            /\ RatGe(Rat(1, 1), eret.confidence)

C14_Witness ==
    /\ Voted
    /\ Len(models) = 2
    /\ RatEq(eret.confidence, Rat(1, 2))

\* C15: the ensemble label is 'real' exactly when the normalized real-sum is
\* strictly greater than the normalized fake-sum and 'fake' otherwise; on an
\* exact tie it is 'fake'.
C15_TieIsFake ==
    Voted =>
        eret.prediction =
            IF RatGt(eret.probability_real, eret.probability_fake)
            THEN "real" ELSE "fake"

\* C16: predict_ensemble raises, and returns no result, whenever load_models
\* has not succeeded or no model is loaded, and it leaves the models and the
\* loaded flag as they were (the weights are never assigned after __init__).
C16_NoClassifiersRaises ==
    [][eret'.op = "predict_ensemble" /\ (~loaded \/ Len(models) = 0)
          => /\ eret' = [op |-> "predict_ensemble", raised |-> TRUE]
             /\ loaded' = loaded
             /\ models' = models]_vars

C16_Witness ==
    /\ eret.op = "predict_ensemble"
    /\ eret.raised
    /\ ~loaded
    /\ Len(models) > 0

\* the last /explain request got the combined explanation
Combined == xret.op = "explain" /\ xret.status = 200 /\ xret.model_name = None

\* the weight the explainer of model m reports for a token, 0 if the token is
\* not in its list
WordWeightOf(m, tok) ==
    LET l == ExplainerWeights(m, num_features)
    IN  IF \E i \in 1..Len(l) : l[i][1] = tok
        THEN l[CHOOSE i \in 1..Len(l) : l[i][1] = tok][2]
        ELSE 0

\* sum over the models with explainers of classifier weight * x, the weights
\* 0.6/0.2/0.2 in tenths
ExplainerSum(x) ==
    (IF "random_forest" \in Range(explainers.names)
     THEN 6 * x["random_forest"] ELSE 0)
    + (IF "lightgbm" \in Range(explainers.names)
       THEN 2 * x["lightgbm"] ELSE 0)
    + (IF "xgboost" \in Range(explainers.names)
       THEN 2 * x["xgboost"] ELSE 0)

\* sum over the explainers of classifier weight * word weight of a token
TokenSum(tok) == ExplainerSum([m \in ModelNames |-> WordWeightOf(m, tok)])

\* C17: the combined weight of each token is (sum over the classifiers with
\* explainers of classifier_weight * word_weight(token)) / (sum of their
\* classifier weights), a token missing from a list counting 0; with RF and
\* XGB only, a token of weight w in both gets w.
C17_AggregationRenormalized ==
    Combined =>
        \A i \in 1..Len(xret.weights) :
            xret.weights[i][2] * ExplainerSum([m \in ModelNames |-> 1])
                = 10 * TokenSum(xret.weights[i][1])

\* the tokens of the explainers' lists, in the order the loop meets them
RECURSIVE SeenOrder(_)
SeenOrder(names) ==
    IF names = <<>> THEN <<>>
    ELSE LET l == ExplainerWeights(Head(names), num_features)
         IN  [i \in 1..Len(l) |-> l[i][1]] \o SeenOrder(Tail(names))

FirstSeen(tok) ==
    LET o == SeenOrder(explainers.names)
    IN  CHOOSE i \in 1..Len(o) : o[i] = tok /\ \A j \in 1..(i - 1) : o[j] # tok

\* token a goes before token b: heavier, or as heavy and seen first
Before(a, wa, b, wb) ==
    Abs(wa) > Abs(wb) \/ (Abs(wa) = Abs(wb) /\ FirstSeen(a) < FirstSeen(b))

\* C18: the combined weights list is in non-increasing order of absolute
\* weight, tokens of equal absolute weight in first-seen order, and it is the
\* first num_features elements of that order.
C18_CombinedOrder ==
    Combined =>
        LET w == xret.weights
            all == Range(SeenOrder(explainers.names))
            got == {w[i][1] : i \in 1..Len(w)}
        IN  /\ \A i, j \in 1..Len(w) :
                  i < j => Before(w[i][1], w[i][2], w[j][1], w[j][2])
            /\ got \subseteq all
            /\ Len(w) = IF Cardinality(all) < num_features
                        THEN Cardinality(all) ELSE num_features
            /\ \A i \in 1..Len(w) : \A t \in all \ got :
                  Before(w[i][1], w[i][2], t, TokenSum(t))

C18_Witness ==
    /\ Combined
    /\ num_features = 1
    /\ explainers.names = <<"lightgbm", "xgboost">>
    /\ explanations["lightgbm"] = <<<<"x", 20>>>>
    /\ explanations["xgboost"] = <<<<"y", -20>>>>
    /\ xret.weights = <<<<"x", 40>>>>

\* C19: an explanation request with num_features < 1 or > 50 is refused as
\* invalid and gets no explanation, not an empty or truncated weights list.
C19_NumFeaturesRefused ==
    xret.op = "explain" /\ (num_features < 1 \/ num_features > 50)
        => xret = [op |-> "explain", status |-> 422,
                   model_name |-> xret.model_name]

C19_Witness ==
    /\ xret.op = "explain"
    /\ num_features = 0
    /\ xret.status = 422
    /\ Len(explainers.names) > 0

\* C20: when no signal is present (no ML prediction, no source verification,
\* no sentiment analysis, text not from OCR) the verdict calculation fails
\* with an error and returns no score or verdict.
C20_NoSignalsFails ==
    /\ verdict.op = "final_verdict"
    /\ ~signals.ml.present
    /\ ~signals.source.present
    /\ ~signals.sentiment.present
    /\ ~signals.ocr.present
    => verdict = [op |-> "final_verdict", raised |-> TRUE]

\* the last /predict request was answered from the cache
ServedFromCache ==
    resp.op = "predict" /\ resp.status = 200 /\ resp.body.cached

\* C11: when /predict is served from the cache, the value held in the cache
\* entry after the request is equal, field by field, to the value set stored
\* (the caller gets no reference through which the entry is modified).
C11_HitLeavesEntry ==
    ServedFromCache =>
        LET key == MakeKey(StrOf[resp.text], resp.mode)
        IN  heap[key] = stored[key]

\* C12: two /predict calls with identical text and mode, the classifiers
\* answering identically, return identical results, whether the second is
\* recomputed or served from the cache.
C12_Idempotent ==
    resp.op = "predict" /\ resp.status = 200 =>
        resp.body = seen[MakeKey(StrOf[resp.text], resp.mode)]

\* _calculate_final_verdict has answered for the result dict at hand
Judged == verdict.op = "final_verdict" /\ ~verdict.raised

AnySignal ==
    \/ signals.ml.present
    \/ signals.source.present
    \/ signals.sentiment.present
    \/ signals.ocr.present

\* the budgets of the signals present: ML 40, source 30, sentiment 20, OCR 10
Denominator ==
    (IF signals.ml.present THEN 40 ELSE 0)
    + (IF signals.source.present THEN 30 ELSE 0)
    + (IF signals.sentiment.present THEN 20 ELSE 0)
    + (IF signals.ocr.present THEN 10 ELSE 0)

\* what each signal contributes, in hundredths
MlContribution(ml) ==
    IF ml.present /\ ml.label = "fake" THEN 40 * ml.confidence ELSE 0

SourceContribution(src) ==
    IF ~src.present THEN 0
    ELSE IF src.known_fake THEN 3000
    ELSE IF src.trusted THEN -3000
    ELSE IF src.credibility_score < 4 THEN 1500
    ELSE 0

SentimentContribution(sent) ==
    IF ~sent.present THEN 0
    ELSE IF sent.manipulation_risk = "VERY HIGH" THEN 2000
    ELSE IF sent.manipulation_risk = "HIGH" THEN 1500
    ELSE IF sent.manipulation_risk = "MEDIUM" THEN 1000
    ELSE 0

OcrContribution(ocr) ==
    IF ocr.present /\ ocr.confidence < 70
    THEN (100 - ocr.confidence) * 10 ELSE 0

\* the raw score, in hundredths: the running total after the source signal
\* is kept at 0 or above
RawScore ==
    LET running == MlContribution(signals.ml)
                   + SourceContribution(signals.source)
    IN  (IF running < 0 THEN 0 ELSE running)
        + SentimentContribution(signals.sentiment)
        + OcrContribution(signals.ocr)

\* clamp(x, 0, 100)
Clamp(x) ==
    IF RatGt(Rat(0, 1), x) THEN Rat(0, 1)
    ELSE IF RatGt(x, Rat(100, 1)) THEN Rat(100, 1)
    ELSE x

\* C21: with at least one signal present, the fake_score of the result is
\* clamp(raw_score / denominator * 100, 0, 100), so it lies in [0, 100]
\* (the field is rounded to one decimal, here in tenths).
C21_ScoreFormula ==
    Judged /\ AnySignal =>
        /\ verdict.fake_score = RoundTenths(Clamp(Rat(RawScore, Denominator)))
        /\ verdict.fake_score >= 0
        /\ verdict.fake_score <= 1000

\* the entries of confidence_breakdown, by name
Factors == {verdict.confidence_breakdown[i][1] :
               i \in 1..Len(verdict.confidence_breakdown)}

\* C22: an absent signal adds 0 to the raw score and 0 to the denominator, so
\* max_score is the sum of the budgets of the signals present; a signal that
\* is present with a zero contribution adds nothing to the raw score and its
\* full budget to the denominator.
C22_DenominatorExclusion ==
    Judged =>
        /\ verdict.max_score = Denominator
        /\ verdict.fake_score * 10 = RawScore
        /\ ~signals.ml.present => "ML Model" \notin Factors
        /\ ~signals.source.present =>
              Factors \cap {"Source: Known Fake", "Source: Trusted",
                            "Source: Low Credibility"} = {}
        /\ ~signals.sentiment.present =>
              Factors \cap {"Sentiment Manipulation", "Sentiment: Moderate"}
                  = {}
        /\ ~signals.ocr.present => "OCR Uncertainty" \notin Factors

C22_Witness ==
    /\ Judged
    /\ signals.ml.present /\ signals.ml.label = "real"
    /\ ~signals.source.present
    /\ signals.sentiment.present /\ signals.sentiment.manipulation_risk = "LOW"
    /\ ~signals.ocr.present
    /\ verdict.max_score = 60
    /\ verdict.fake_score = 0

\* ML label fake at confidence 1.0, a trusted source and no other signal
TrustedScenario ==
    /\ signals.ml = [present |-> TRUE, label |-> "fake", confidence |-> 100]
    /\ signals.source.present
    /\ ~signals.source.known_fake
    /\ signals.source.trusted
    /\ ~signals.sentiment.present
    /\ ~signals.ocr.present

\* C23: a trusted source subtracts 30 but the running total never drops below
\* 0, so the raw score and the final score are never negative; ML fake at
\* confidence 1.0 with a trusted source and no other signal gives denominator
\* 70, raw score 10 and the scaled score 10/70*100.
C23_ClampedAtZero ==
    Judged =>
        /\ verdict.fake_score >= 0
        /\ RatGe(verdict.final_score, Rat(0, 1))
        /\ verdict.confidence >= 0
        /\ TrustedScenario =>
              /\ verdict.max_score = 70
              /\ verdict.fake_score = 100
              /\ RatEq(verdict.final_score, Rat(1000, 70))

C23_Witness ==
    /\ Judged
    /\ TrustedScenario
    /\ verdict.confidence = 143

\* how severe a verdict is
Severity(v) ==
    IF v = "FAKE" THEN 4
    ELSE IF v = "LIKELY FAKE" THEN 3
    ELSE IF v = "SUSPICIOUS" THEN 2
    ELSE IF v = "LIKELY REAL" THEN 1
    ELSE 0

\* C24: the verdict is fixed by the scaled score through the thresholds
\* >= 80 FAKE, >= 60 LIKELY FAKE, >= 40 SUSPICIOUS, >= 20 LIKELY REAL, else
\* REAL (its severity is the number of thresholds the score reaches, so a
\* higher score never gives a less severe verdict), and the recommendation
\* is fixed by the verdict.
C24_Ladder ==
    Judged =>
        /\ verdict.verdict \in
              {"FAKE", "LIKELY FAKE", "SUSPICIOUS", "LIKELY REAL", "REAL"}
        /\ Severity(verdict.verdict) =
              Cardinality({t \in {20, 40, 60, 80} :
                              RatGe(verdict.final_score, Rat(t, 1))})
        /\ verdict.recommendation =
              CASE verdict.verdict = "FAKE" ->
                       "Do not trust or share this content"
                [] verdict.verdict = "LIKELY FAKE" -> "Highly questionable"
                [] verdict.verdict = "SUSPICIOUS" -> "Exercise caution"
                [] verdict.verdict = "LIKELY REAL" -> "Appears credible"
                [] OTHER -> "Likely legitimate"

C24_Witness ==
    /\ Judged
    /\ RatEq(verdict.final_score, Rat(80, 1))
    /\ verdict.verdict = "FAKE"

\* C25: the reasons are ordered by descending magnitude of the contribution
\* of the signal that produced each of them.
C25_ReasonsByMagnitude ==
    Judged =>
        LET f == verdict.confidence_breakdown
        IN  /\ Len(verdict.reasons) = Len(f)
            /\ \A i, j \in 1..Len(f) :
                  i < j => Abs(f[i][2]) >= Abs(f[j][2])

\* C26: with a signal present, is_fake is true exactly when the result's
\* fake_score is >= 50, so it never disagrees with the returned fake_score
\* field (in tenths here).
C26_MidpointFlag ==
    Judged /\ AnySignal => (verdict.is_fake <=> verdict.fake_score >= 500)

\* the level of a source signal: trusted < neutral < low credibility < known
\* fake
SourceLevel(src) ==
    IF src.known_fake THEN 3
    ELSE IF src.trusted THEN 0
    ELSE IF src.credibility_score < 4 THEN 2
    ELSE 1

SentimentLevel(sent) ==
    CASE sent.manipulation_risk = "VERY HIGH" -> 3
      [] sent.manipulation_risk = "HIGH" -> 2
      [] sent.manipulation_risk = "MEDIUM" -> 1
      [] OTHER -> 0

\* the result dicts that differ from the one at hand in one present signal,
\* raised
RaisedSignals ==
    {[signals EXCEPT !.ml = m] :
        m \in {m \in MlSignals :
                  /\ signals.ml.present /\ m.present
                  /\ signals.ml.label = "fake" /\ m.label = "fake"
                  /\ m.confidence >= signals.ml.confidence}}
    \cup {[signals EXCEPT !.source = x] :
        x \in {x \in SourceSignals :
                  /\ signals.source.present /\ x.present
                  /\ SourceLevel(x) >= SourceLevel(signals.source)}}
    \cup {[signals EXCEPT !.sentiment = x] :
        x \in {x \in SentimentSignals :
                  /\ signals.sentiment.present /\ x.present
                  /\ SentimentLevel(x) >= SentimentLevel(signals.sentiment)}}
    \cup {[signals EXCEPT !.ocr = x] :
        x \in {x \in OcrSignals :
                  /\ signals.ocr.present /\ x.present
                  /\ x.confidence <= signals.ocr.confidence}}

\* C27: with the set of present signals and all other signals fixed, raising
\* one signal's contribution never decreases the scaled score, also across
\* the clamp applied for a trusted source.
C27_Monotone ==
    Judged =>
        \A s \in RaisedSignals :
            RatGe(CalculateFinalVerdict(s).final_score, verdict.final_score)

C27_Witness ==
    /\ Judged
    /\ signals.ml = [present |-> TRUE, label |-> "fake", confidence |-> 50]
    /\ signals.source.present
    /\ SourceLevel(signals.source) = 0
    /\ signals.sentiment.present
    /\ signals.sentiment.manipulation_risk = "HIGH"
    /\ verdict.fake_score = 150

\* the budgets of the image checks that were run: manipulation 25, AI
\* generation 35, image context 20, context mismatch 15
ImageDenominator ==
    (IF image.manipulation.run THEN 25 ELSE 0)
    + (IF image.ai.run THEN 35 ELSE 0)
    + (IF image.context.run THEN 20 ELSE 0)
    + (IF image.mismatch.run THEN 15 ELSE 0)

\* C28: the image verdict's score is the sum of the contributions divided by
\* the sum of the budgets of the checks that were run, times 100: one check
\* run alone and contributing its full budget scores 100, and a check that
\* was not run does not lower the score.
C28_ImageScaled ==
    imageVerdict.op = "image_verdict" /\ ImageDenominator > 0 =>
        imageVerdict.fake_score * ImageDenominator
            = 100 * (ManipulationScore(image.manipulation)
                     + AiScore(image.ai) + ContextScore(image.context)
                     + MismatchScore(image.mismatch))

\* the classifier input of the last /predict request
RequestInput == IF resp.clean THEN CleanOf[resp.text] ELSE resp.text

\* C29: a cached /predict response is only served to a request whose
\* classifier input is the one it was computed from: requests with the same
\* raw text and mode but different clean flags, whose cleaned inputs differ,
\* never share a cache entry.
C29_KeyedByInput ==
    ServedFromCache =>
        origin[MakeKey(StrOf[resp.text], resp.mode)] = StrOf[RequestInput]

\* the step is a /predict request for this text and mode
Requested(text, mode) ==
    /\ now' = now
    /\ resp'.op = "predict"
    /\ resp'.text = text
    /\ resp'.mode = mode

\* C30: a /predict request rejected by text validation touches neither the
\* cache entries nor the counters; one whose prediction raises stores no
\* entry for its key and counts one miss, so that an identical request
\* misses again; an entry is stored only by a request that succeeds.
C30_FailuresStoreNothing ==
    [][\A text \in Texts, mode \in PredictModes :
          Requested(text, mode) =>
              LET key == MakeKey(StrOf[text], mode)
              IN  /\ ~ValidateText(text) =>
                        /\ resp'.status = 400
                        /\ cache' = cache
                        /\ hits' = hits
                        /\ misses' = misses
                  /\ resp'.status = 500 =>
                        /\ key \notin Keys(cache')
                        /\ Keys(cache') \subseteq Keys(cache)
                        /\ hits' = hits
                        /\ misses' = misses + 1
                  /\ (\E i \in 1..Len(cache') :
                         \A j \in 1..Len(cache) : cache[j] # cache'[i])
                        => /\ resp'.status = 200
                           /\ ~resp'.body.cached
                           /\ Lookup(cache', key).timestamp = now]_vars

C30_Witness ==
    /\ resp.op = "predict"
    /\ resp.status = 500
    /\ misses = 2
    /\ cache = <<>>
    /\ max_size > 0

====
